---- MODULE Spec2Model ----
(***************************************************************************)
(* A model of src/wallet/index.ts (xverse-core wallet module): derivation  *)
(* path builders, wallet assembly from a seed phrase, private key lookup   *)
(* helpers, address validators and the seed encryption callbacks.          *)
(*                                                                         *)
(* Path strings are sequences of one-character strings.  Strings handled   *)
(* by the encryption callbacks are sequences of character codes, buffers   *)
(* are sequences of bytes.  Library results (seed, HD nodes, keys,         *)
(* addresses) are records built injectively from their arguments.          *)
(***************************************************************************)
EXTENDS Integers, Sequences, FiniteSets

VARIABLES
    pathArgs,   \* arguments of the path builder under study
    pathOut,    \* network -> <<path>> once the builder has run for it
    vIn,        \* validator input: function, network, library outcome
    vOut,       \* <<>> or <<outcome of the validator>>
    cb,         \* the caller-supplied hash and cipher callbacks
    enc,        \* the encryptMnemonicWithCallback operation
    dec,        \* the decryptMnemonicWithCallback operation
    libFault,   \* which library step fails for this run of the program
    slots,      \* which functions each call slot may run
    calls       \* call id -> state of that asynchronous call

vars == <<pathArgs, pathOut, vIn, vOut, cb, enc, dec, libFault, slots, calls>>

Networks == {"Mainnet", "Testnet"}

(***************************************************************************)
(* Bounds of the model.                                                    *)
(***************************************************************************)
MaxPathIndex == 11
MaxAccount == 2
MaxVersion == 31
MaxSeedLen == 2
MaxIndex == 1
NCalls == 2

(***************************************************************************)
(* Strings.                                                                *)
(***************************************************************************)
Digits == <<"0", "1", "2", "3", "4", "5", "6", "7", "8", "9">>

RECURSIVE NatToString(_)
NatToString(n) ==
    IF n < 10 THEN <<Digits[n + 1]>>
    ELSE NatToString(n \div 10) \o <<Digits[(n % 10) + 1]>>

\* bigint.prototype.toString(): decimal digits, "-" first for a negative value
BigIntToString(n) ==
    IF n < 0 THEN <<"-">> \o NatToString(0 - n) ELSE NatToString(n)

\* the segments of s between the occurrences of sep
RECURSIVE SplitFrom(_, _, _, _)
SplitFrom(s, sep, k, cur) ==
    IF k > Len(s) THEN <<cur>>
    ELSE IF s[k] = sep THEN <<cur>> \o SplitFrom(s, sep, k + 1, <<>>)
    ELSE SplitFrom(s, sep, k + 1, Append(cur, s[k]))

Split(s, sep) == SplitFrom(s, sep, 1, <<>>)

EndsWith(s, t) ==
    /\ Len(t) <= Len(s)
    /\ SubSeq(s, Len(s) - Len(t) + 1, Len(s)) = t

(***************************************************************************)
(* Constants imported from ../constant.                                    *)
(***************************************************************************)
BTC_WRAPPED_SEGWIT_PATH_PURPOSE == <<"m", "/", "4", "9", "'", "/">>
BTC_SEGWIT_PATH_PURPOSE == <<"m", "/", "8", "4", "'", "/">>
BTC_TAPROOT_PATH_PURPOSE == <<"m", "/", "8", "6", "'", "/">>
STX_PATH_WITHOUT_INDEX ==
    <<"m", "/", "4", "4", "'", "/", "5", "7", "5", "7", "'", "/",
      "0", "'", "/", "0", "/">>

(***************************************************************************)
(* Path builders.  An optional account is <<>> (absent) or <<n>>.          *)
(***************************************************************************)
\* account ? account.toString() : '0'   (0n is falsy)
AccountIndex(account) ==
    IF account # <<>> /\ account[1] # 0 THEN BigIntToString(account[1])
    ELSE <<"0">>

PathTemplate(purpose, coin, account, index) ==
    purpose \o <<coin, "'", "/">> \o AccountIndex(account)
            \o <<"'", "/", "0", "/">> \o BigIntToString(index)

getBitcoinDerivationPath_Flipped(account, index, network) ==
    IF network = "Mainnet"
    THEN PathTemplate(BTC_WRAPPED_SEGWIT_PATH_PURPOSE, "0", account, index)
    ELSE BTC_WRAPPED_SEGWIT_PATH_PURPOSE \o <<"1", "'", "/">>
            \o AccountIndex(account) \o <<"'", "/", "1", "/">>
            \o BigIntToString(index)

getBitcoinDerivationPath(account, index, network) ==
    IF network = "Mainnet"
    THEN PathTemplate(BTC_WRAPPED_SEGWIT_PATH_PURPOSE, "0", account, index)
    ELSE PathTemplate(BTC_WRAPPED_SEGWIT_PATH_PURPOSE, "1", account, index)

getSegwitDerivationPath(account, index, network) ==
    IF network = "Mainnet"
    THEN PathTemplate(BTC_SEGWIT_PATH_PURPOSE, "0", account, index)
    ELSE PathTemplate(BTC_SEGWIT_PATH_PURPOSE, "1", account, index)

getTaprootDerivationPath(account, index, network) ==
    IF network = "Mainnet"
    THEN PathTemplate(BTC_TAPROOT_PATH_PURPOSE, "0", account, index)
    ELSE PathTemplate(BTC_TAPROOT_PATH_PURPOSE, "1", account, index)

derivationPaths_PerChain(chain) ==
    IF chain = "Mainnet" THEN STX_PATH_WITHOUT_INDEX
    ELSE <<"m", "/", "4", "4", "'", "/", "1", "'", "/", "0", "'", "/", "0", "/">>

\* derivationPaths[chain]: both chains map to STX_PATH_WITHOUT_INDEX
derivationPaths(chain) ==
    IF chain = "Mainnet" THEN STX_PATH_WITHOUT_INDEX ELSE STX_PATH_WITHOUT_INDEX

getDerivationPath(chain, index) ==
    derivationPaths(chain) \o BigIntToString(index)

PathBuilders == {"getBitcoinDerivationPath", "getSegwitDerivationPath",
                 "getTaprootDerivationPath"}
Accounts == {<<>>} \cup {<<a>> : a \in 0..MaxAccount}
PathIndexes == (0 - 1)..MaxPathIndex

PathInit ==
    /\ pathArgs \in [fn : PathBuilders, account : Accounts, index : PathIndexes]
    /\ pathOut = [n \in Networks |-> <<>>]

PathIdle ==
    /\ pathArgs = [fn |-> "none", account |-> <<>>, index |-> 0]
    /\ pathOut = [n \in Networks |-> <<>>]

CallBitcoinDerivationPath(network) ==
    /\ pathArgs.fn = "getBitcoinDerivationPath"
    /\ pathOut[network] = <<>>
    /\ pathOut' = [pathOut EXCEPT ![network] =
           <<getBitcoinDerivationPath(pathArgs.account, pathArgs.index, network)>>]
    /\ UNCHANGED <<pathArgs, vIn, vOut, cb, enc, dec, libFault, slots, calls>>

CallSegwitDerivationPath(network) ==
    /\ pathArgs.fn = "getSegwitDerivationPath"
    /\ pathOut[network] = <<>>
    /\ pathOut' = [pathOut EXCEPT ![network] =
           <<getSegwitDerivationPath(pathArgs.account, pathArgs.index, network)>>]
    /\ UNCHANGED <<pathArgs, vIn, vOut, cb, enc, dec, libFault, slots, calls>>

CallTaprootDerivationPath(network) ==
    /\ pathArgs.fn = "getTaprootDerivationPath"
    /\ pathOut[network] = <<>>
    /\ pathOut' = [pathOut EXCEPT ![network] =
           <<getTaprootDerivationPath(pathArgs.account, pathArgs.index, network)>>]
    /\ UNCHANGED <<pathArgs, vIn, vOut, cb, enc, dec, libFault, slots, calls>>

PathNext ==
    \E network \in Networks :
        \/ CallBitcoinDerivationPath(network)
        \/ CallSegwitDerivationPath(network)
        \/ CallTaprootDerivationPath(network)

(***************************************************************************)
(* Address validators.  The address string is represented by what the      *)
(* decoding / validation library does with it: it throws, or returns       *)
(* [version, hash] (c32addressDecode) or a boolean (validate).             *)
(***************************************************************************)
\* AddressVersion of @stacks/transactions
MainnetSingleSig == 22
MainnetMultiSig == 20
TestnetSingleSig == 26
TestnetMultiSig == 21

Hashes == {"", "a46ff88886c2ef9762d970b4d2c63678835bd39d"}

StxLibOutcomes ==
    [threw : {FALSE}, version : 0..MaxVersion, hash : Hashes, valid : {FALSE}]
      \cup {[threw |-> TRUE, version |-> 0, hash |-> "", valid |-> FALSE]}
BtcLibOutcomes ==
    [threw : {FALSE}, version : {0}, hash : {""}, valid : BOOLEAN]
      \cup {[threw |-> TRUE, version |-> 0, hash |-> "", valid |-> FALSE]}

Return(v) == [raised |-> FALSE, value |-> v]
Raise == [raised |-> TRUE, value |-> FALSE]

validateStxAddress_OrTestnet(lib, network) ==
    IF lib.threw THEN Return(FALSE)
    ELSE IF lib.version # 0 /\ lib.hash # ""
    THEN IF network = "Mainnet"
         THEN IF ~(lib.version = MainnetSingleSig \/ lib.version = MainnetMultiSig)
              THEN Return(FALSE)
              ELSE Return(TRUE)
         ELSE IF lib.version # TestnetSingleSig \/ lib.version # TestnetMultiSig
              THEN Return(FALSE)
              ELSE Return(TRUE)
    ELSE Return(FALSE)

validateStxAddress(lib, network) ==
    IF lib.threw THEN Return(FALSE)                      \* catch: return false
    ELSE IF lib.version # 0 /\ lib.hash # ""             \* result[0] && result[1]
    THEN IF network = "Mainnet"
         THEN IF ~(lib.version = MainnetSingleSig \/ lib.version = MainnetMultiSig)
              THEN Return(FALSE)
              ELSE Return(TRUE)
         ELSE IF lib.version # TestnetSingleSig /\ lib.version # TestnetMultiSig
              THEN Return(FALSE)
              ELSE Return(TRUE)
    ELSE Return(FALSE)

validateBtcAddress_NoCatch(lib, network) ==
    IF lib.threw THEN Raise ELSE Return(lib.valid)

validateBtcAddress(lib, network) ==
    IF lib.threw THEN Return(FALSE)                      \* catch: return false
    ELSE Return(lib.valid)

ValidateInit ==
    /\ vIn \in [fn : {"validateStxAddress"}, network : Networks, lib : StxLibOutcomes]
          \cup [fn : {"validateBtcAddress"}, network : Networks, lib : BtcLibOutcomes]
    /\ vOut = <<>>

ValidateIdle ==
    /\ vIn = [fn |-> "none", network |-> "Mainnet",
              lib |-> [threw |-> TRUE, version |-> 0, hash |-> "", valid |-> FALSE]]
    /\ vOut = <<>>

CallValidateStxAddress ==
    /\ vIn.fn = "validateStxAddress"
    /\ vOut = <<>>
    /\ vOut' = <<validateStxAddress(vIn.lib, vIn.network)>>
    /\ UNCHANGED <<pathArgs, pathOut, vIn, cb, enc, dec, libFault, slots, calls>>

CallValidateBtcAddress ==
    /\ vIn.fn = "validateBtcAddress"
    /\ vOut = <<>>
    /\ vOut' = <<validateBtcAddress(vIn.lib, vIn.network)>>
    /\ UNCHANGED <<pathArgs, pathOut, vIn, cb, enc, dec, libFault, slots, calls>>

ValidateNext == CallValidateStxAddress \/ CallValidateBtcAddress

(***************************************************************************)
(* Seed encryption callbacks.  Strings are sequences of character codes,   *)
(* buffers sequences of bytes.  The callbacks are the caller's: the model  *)
(* draws them from a small family of stubs.                                *)
(***************************************************************************)
Chars == {97, 98}                          \* "a", "b"
Passwords == {<<112, 49>>, <<112, 50>>}    \* "p1", "p2"
Errors == {"E1", "E2"}

RECURSIVE StringsUpTo(_)
StringsUpTo(n) ==
    IF n = 0 THEN {<<>>}
    ELSE LET shorter == StringsUpTo(n - 1)
         IN  shorter \cup {Append(s, c) : s \in shorter, c \in Chars}

Seeds == StringsUpTo(MaxSeedLen)

RECURSIVE SumCodes(_)
SumCodes(s) == IF s = <<>> THEN 0 ELSE Head(s) + SumCodes(Tail(s))

\* the character code of a hex digit, lower case as Buffer.toString('hex') writes it
HexDigit(d) == IF d < 10 THEN 48 + d ELSE 87 + d
\* the value of a hex digit's character code
HexVal(c) == IF c >= 48 /\ c <= 57 THEN c - 48 ELSE c - 87

\* Buffer.prototype.toString('hex')
RECURSIVE HexEncode(_)
HexEncode(bytes) ==
    IF bytes = <<>> THEN <<>>
    ELSE <<HexDigit(Head(bytes) \div 16), HexDigit(Head(bytes) % 16)>>
            \o HexEncode(Tail(bytes))

\* Buffer.from(str, 'hex') on a string of hex digit pairs
RECURSIVE HexDecode(_)
HexDecode(str) ==
    IF Len(str) < 2 THEN <<>>
    ELSE <<HexVal(str[1]) * 16 + HexVal(str[2])>> \o HexDecode(Tail(Tail(str)))

\* Buffer.from(str) on an ASCII string: one byte per character
Utf8Bytes(str) == str

\* the stub hash generators: hash is the hex of one byte drawn from the password;
\* the salted generator mixes a fresh nonce into it on every call
PasswordHash(password, nonce) == HexEncode(<<(SumCodes(password) + nonce) % 256>>)
Nonces == IF cb.hasher = "salted" THEN {0, 1} ELSE {0}

KeyShift(key) == SumCodes(key) % 128

\* the stub cipher: shift every byte by an amount drawn from the key
StubEncrypt(seed, key) == [i \in 1..Len(seed) |-> (seed[i] + KeyShift(key)) % 256]

\* the stub decipher reads its input as bytes and shifts them back; given a string
\* the "hexAware" stub decodes it as hex, the "rawBytes" stub takes its characters
InputBytes(kind, data) ==
    IF data.type = "Buffer" THEN data.v
    ELSE IF kind = "hexAware" THEN HexDecode(data.v)
    ELSE Utf8Bytes(data.v)

StubDecrypt(kind, data, key) ==
    LET bytes == InputBytes(kind, data)
    IN  [i \in 1..Len(bytes) |-> (bytes[i] + 256 - KeyShift(key)) % 256]

IdleOp ==
    [pc |-> "idle", password |-> <<>>, input |-> <<>>, trace |-> <<>>,
     hash |-> <<>>, cipherKey |-> <<>>, raisedErr |-> "", result |-> <<>>, err |-> ""]

CryptInit ==
    /\ cb \in [cipher : {"hexAware", "rawBytes"}, hasher : {"deterministic", "salted"}]
    /\ enc = IdleOp
    /\ dec = IdleOp

CryptIdle ==
    /\ cb = [cipher |-> "hexAware", hasher |-> "deterministic"]
    /\ enc = IdleOp
    /\ dec = IdleOp

\* const { hash } = await passwordHashGenerator(password): the callback is invoked
OpCall(op, password, input) ==
    [op EXCEPT !.pc = "awaitHash", !.password = password, !.input = input,
               !.trace = <<"hashCall">>]

\* the hash promise rejects: the await throws and the operation rejects with it
OpHashThrows(op, e) ==
    [op EXCEPT !.pc = "rejected", !.trace = Append(op.trace, "hashThrow"),
               !.raisedErr = e, !.err = e]

OpHashReturns_SaltAsKey(op, h) ==
    [op EXCEPT !.pc = "awaitCipher", !.hash = h,
               !.trace = op.trace \o <<"hashReturn", "cipherCall">>,
               !.cipherKey = <<>>]

\* the hash promise resolves: the cipher callback is invoked with (input, hash)
OpHashReturns(op, h) ==
    [op EXCEPT !.pc = "awaitCipher", !.hash = h,
               !.trace = op.trace \o <<"hashReturn", "cipherCall">>,
               !.cipherKey = h]

OpCipherThrows(op, e) ==
    [op EXCEPT !.pc = "rejected", !.trace = Append(op.trace, "cipherThrow"),
               !.raisedErr = e, !.err = e]

OpCipherReturns(op, result) ==
    [op EXCEPT !.pc = "done", !.trace = Append(op.trace, "cipherReturn"),
               !.result = result]

CryptFrame == UNCHANGED <<pathArgs, pathOut, vIn, vOut, cb, libFault, slots, calls>>

EncryptCall ==
    /\ enc.pc = "idle"
    /\ \E password \in Passwords, seed \in Seeds :
           enc' = OpCall(enc, password, seed)
    /\ UNCHANGED dec
    /\ CryptFrame

EncryptHashThrows ==
    /\ enc.pc = "awaitHash"
    /\ \E e \in Errors : enc' = OpHashThrows(enc, e)
    /\ UNCHANGED dec
    /\ CryptFrame

EncryptHashReturns ==
    /\ enc.pc = "awaitHash"
    /\ \E nonce \in Nonces :
           enc' = OpHashReturns(enc, PasswordHash(enc.password, nonce))
    /\ UNCHANGED dec
    /\ CryptFrame

EncryptCipherThrows ==
    /\ enc.pc = "awaitCipher"
    /\ \E e \in Errors : enc' = OpCipherThrows(enc, e)
    /\ UNCHANGED dec
    /\ CryptFrame

EncodeEncryptedSeed_Latin1(encryptedSeedBuffer) == encryptedSeedBuffer

\* encryptedSeedBuffer.toString('hex')
EncodeEncryptedSeed(encryptedSeedBuffer) == HexEncode(encryptedSeedBuffer)

EncryptCipherReturns ==
    /\ enc.pc = "awaitCipher"
    /\ enc' = OpCipherReturns(enc,
                  EncodeEncryptedSeed(StubEncrypt(enc.input, enc.cipherKey)))
    /\ UNCHANGED dec
    /\ CryptFrame

\* the caller passes an earlier encryption's output, or some other hex string
EncryptedSeeds == (IF enc.pc = "done" THEN {enc.result} ELSE {}) \cup {<<54, 49>>}

DecryptCall ==
    /\ dec.pc = "idle"
    /\ \E password \in Passwords, encryptedSeed \in EncryptedSeeds :
           dec' = OpCall(dec, password, encryptedSeed)
    /\ UNCHANGED enc
    /\ CryptFrame

DecryptHashThrows ==
    /\ dec.pc = "awaitHash"
    /\ \E e \in Errors : dec' = OpHashThrows(dec, e)
    /\ UNCHANGED enc
    /\ CryptFrame

DecryptHashReturns ==
    /\ dec.pc = "awaitHash"
    /\ \E nonce \in Nonces :
           dec' = OpHashReturns(dec, PasswordHash(dec.password, nonce))
    /\ UNCHANGED enc
    /\ CryptFrame

DecryptCipherThrows ==
    /\ dec.pc = "awaitCipher"
    /\ \E e \in Errors : dec' = OpCipherThrows(dec, e)
    /\ UNCHANGED enc
    /\ CryptFrame

\* mnemonicDecryptionHandler(encryptedSeed, hash): the hex string is passed as it is
DecryptCipherReturns ==
    /\ dec.pc = "awaitCipher"
    /\ dec' = OpCipherReturns(dec,
                  StubDecrypt(cb.cipher, [type |-> "string", v |-> dec.input],
                              dec.cipherKey))
    /\ UNCHANGED enc
    /\ CryptFrame

CryptNext ==
    \/ EncryptCall
    \/ EncryptHashThrows
    \/ EncryptHashReturns
    \/ EncryptCipherThrows
    \/ EncryptCipherReturns
    \/ DecryptCall
    \/ DecryptHashThrows
    \/ DecryptHashReturns
    \/ DecryptCipherThrows
    \/ DecryptCipherReturns

(***************************************************************************)
(* Key derivation libraries (bip39, bip32, ecpair, @stacks/transactions,   *)
(* bitcoinjs-lib, @scure/btc-signer, @noble/secp256k1).  Each result is a  *)
(* record built from the arguments, so that equal results mean equal       *)
(* arguments.  libFault names the library step that fails in this run.     *)
(***************************************************************************)
Mnemonics == {"abandon ... about", "zoo ... wrong"}
Indexes == (0 - 1)..MaxIndex
Calls == 1..NCalls
LibFaults == {"none", "seed", "stx", "btc", "taproot"}

\* bip39.mnemonicToSeed(mnemonic)
MnemonicToSeed(mnemonic) == [mnemonic |-> mnemonic]

\* bip32.fromSeed(seed): the master node, which holds a private key
FromSeed(seed) == [seed |-> seed, path |-> <<"m">>, hasPrivateKey |-> TRUE]

IsDigit(ch) == \E k \in 1..10 : Digits[k] = ch

\* one segment of a BIP32 path: \d+'?
IsPathSegment(seg) ==
    LET digits == IF seg # <<>> /\ seg[Len(seg)] = "'"
                  THEN SubSeq(seg, 1, Len(seg) - 1) ELSE seg
    IN  /\ digits # <<>>
        /\ \A k \in 1..Len(digits) : IsDigit(digits[k])

\* the paths bip32's derivePath accepts: ^(m\/)?(\d+'?\/)*\d+'?$
IsBip32Path(path) ==
    LET segs == Split(path, "/")
        body == IF segs[1] = <<"m">> THEN Tail(segs) ELSE segs
    IN  /\ body # <<>>
        /\ \A k \in 1..Len(body) : IsPathSegment(body[k])

\* the purpose segment decides which derivation libFault strikes
FaultOf(path) ==
    LET segs == Split(path, "/")
    IN  IF Len(segs) < 2 THEN "none"
        ELSE IF segs[2] = <<"4", "4", "'">> THEN "stx"
        ELSE IF segs[2] = <<"4", "9", "'">> THEN "btc"
        ELSE IF segs[2] = <<"8", "6", "'">> THEN "taproot"
        ELSE "none"

\* node.derivePath(path), for a path the library accepts
DerivePath(node, path) ==
    [seed |-> node.seed, path |-> path,
     hasPrivateKey |-> node.hasPrivateKey /\ ~(libFault # "none" /\ FaultOf(path) = libFault)]

PrivateKey(node) == [kind |-> "private", seed |-> node.seed, path |-> node.path]
PublicKey(privateKey) == [kind |-> "public", of |-> privateKey]
ToHex(x) == [kind |-> "hex", of |-> x]

NoOutcome ==
    [threw |-> FALSE, err |-> "", value |-> <<>>, stxChild |-> <<>>,
     stxPrivateKey |-> <<>>, btcChild |-> <<>>, taprootChild |-> <<>>]

Throw(e) == [NoOutcome EXCEPT !.threw = TRUE, !.err = e]

TransactionVersion(chain) ==
    IF chain = "Mainnet" THEN "TransactionVersion.Mainnet"
    ELSE "TransactionVersion.Testnet"

\* getAddressFromPrivateKey(privateKey, txVersion)
GetAddressFromPrivateKey(privateKey, txVersion) ==
    [kind |-> "stxAddress", version |-> txVersion, key |-> privateKey]

deriveStxAddressChain_NoCheck(chain, index, rootNode) ==
    LET path == getDerivationPath(chain, index)
    IN  IF ~IsBip32Path(path) THEN Throw("Expected BIP32Path")
        ELSE LET childKey == DerivePath(rootNode, path)
                 privateKey == ToHex(PrivateKey(childKey))
             IN  [NoOutcome EXCEPT
                    !.stxChild = <<childKey>>,
                    !.stxPrivateKey = <<privateKey>>,
                    !.value = <<[childKey |-> childKey,
                                 address |-> GetAddressFromPrivateKey(
                                                privateKey, TransactionVersion(chain)),
                                 privateKey |-> privateKey]>>]

\* deriveStxAddressChain(chain, index)(rootNode)
deriveStxAddressChain(chain, index, rootNode) ==
    LET path == getDerivationPath(chain, index)
    IN  IF ~IsBip32Path(path) THEN Throw("Expected BIP32Path")
        ELSE LET childKey == DerivePath(rootNode, path)
                 privateKey == ToHex(PrivateKey(childKey))
             IN  IF ~childKey.hasPrivateKey
                 THEN Throw("Unable to derive private key from rootNode, bip32 master keychain")
                 ELSE [NoOutcome EXCEPT
                        !.stxChild = <<childKey>>,
                        !.stxPrivateKey = <<privateKey>>,
                        !.value = <<[childKey |-> childKey,
                                     address |-> GetAddressFromPrivateKey(
                                                    privateKey, TransactionVersion(chain)),
                                     privateKey |-> privateKey]>>]

WalletFields ==
    {"stxAddress", "btcAddress", "ordinalsAddress", "masterPubKey",
     "stxPublicKey", "btcPublicKey", "ordinalsPublicKey", "seedPhrase"}

\* walletFromSeedPhrase after `await bip39.mnemonicToSeed(mnemonic)` has resolved
WalletFromSeed(seed, mnemonic, index, network) ==
    LET rootNode == FromSeed(seed)
        stx == deriveStxAddressChain(
                   IF network = "Mainnet" THEN "Mainnet" ELSE "Testnet", index, rootNode)
        master == FromSeed(seed)
        btcPath == getBitcoinDerivationPath(<<>>, index, network)
        taprootPath == getTaprootDerivationPath(<<>>, index, network)
    IN  IF stx.threw THEN stx
        ELSE IF ~IsBip32Path(btcPath) THEN Throw("Expected BIP32Path")
        ELSE LET btcChild == DerivePath(master, btcPath)
             IN  IF ~btcChild.hasPrivateKey
                 THEN Throw("TypeError: ECPair.fromPrivateKey(undefined)")
        ELSE IF ~IsBip32Path(taprootPath) THEN Throw("Expected BIP32Path")
        ELSE LET taprootBtcChild == DerivePath(master, taprootPath)
             IN  IF ~taprootBtcChild.hasPrivateKey
                 THEN Throw("TypeError: undefined.toString")
        ELSE LET keyPair == PrivateKey(btcChild)
                 privKey == PrivateKey(taprootBtcChild)
                 btcNetwork == network
             IN  [stx EXCEPT
                    !.btcChild = <<btcChild>>,
                    !.taprootChild = <<taprootBtcChild>>,
                    !.value = <<[
                        stxAddress |-> stx.value[1].address,
                        btcAddress |-> [kind |-> "p2sh-p2wpkh",
                                        pubkey |-> PublicKey(keyPair),
                                        network |-> btcNetwork],
                        ordinalsAddress |-> [kind |-> "tr", key |-> privKey,
                                             network |-> btcNetwork],
                        masterPubKey |-> ToHex(PublicKey(PrivateKey(master))),
                        stxPublicKey |-> ToHex(PublicKey(stx.stxPrivateKey[1])),
                        btcPublicKey |-> ToHex(PublicKey(keyPair)),
                        ordinalsPublicKey |-> ToHex([kind |-> "schnorr", of |-> privKey]),
                        seedPhrase |-> mnemonic]>>]

getBtcPrivateKey_SegwitPath(seed, index, network) ==
    LET master == FromSeed(seed)
        path == getSegwitDerivationPath(<<>>, index, network)
    IN  IF ~IsBip32Path(path) THEN Throw("Expected BIP32Path")
        ELSE LET btcChild == DerivePath(master, path)
             IN  IF ~btcChild.hasPrivateKey THEN Throw("TypeError: undefined.toString")
                 ELSE [NoOutcome EXCEPT !.btcChild = <<btcChild>>,
                                        !.value = <<ToHex(PrivateKey(btcChild))>>]

\* getBtcPrivateKey after the seed has resolved
getBtcPrivateKey(seed, index, network) ==
    LET master == FromSeed(seed)
        path == getBitcoinDerivationPath(<<>>, index, network)
    IN  IF ~IsBip32Path(path) THEN Throw("Expected BIP32Path")
        ELSE LET btcChild == DerivePath(master, path)
             IN  IF ~btcChild.hasPrivateKey THEN Throw("TypeError: undefined.toString")
                 ELSE [NoOutcome EXCEPT !.btcChild = <<btcChild>>,
                                        !.value = <<ToHex(PrivateKey(btcChild))>>]

\* getBtcTaprootPrivateKey after the seed has resolved
getBtcTaprootPrivateKey(seed, index, network) ==
    LET master == FromSeed(seed)
        path == getTaprootDerivationPath(<<>>, index, network)
    IN  IF ~IsBip32Path(path) THEN Throw("Expected BIP32Path")
        ELSE LET btcChild == DerivePath(master, path)
             IN  IF ~btcChild.hasPrivateKey THEN Throw("TypeError: undefined.toString")
                 ELSE [NoOutcome EXCEPT !.taprootChild = <<btcChild>>,
                                        !.value = <<ToHex(PrivateKey(btcChild))>>]

\* getStxAddressKeyChain after the seed has resolved
getStxAddressKeyChain(seed, chainID, accountIndex) ==
    deriveStxAddressChain(chainID, accountIndex, FromSeed(seed))

(***************************************************************************)
(* Asynchronous calls.  Every exported async function suspends once, at    *)
(* `await bip39.mnemonicToSeed(...)`, and runs to its end when the seed    *)
(* promise settles.  A slot holds one call; a new call may start in a slot *)
(* whose previous call has settled.                                        *)
(***************************************************************************)
WalletFns == {"walletFromSeedPhrase", "newWallet"}
LookupFns == {"getBtcPrivateKey", "getBtcTaprootPrivateKey", "getStxAddressKeyChain"}

IdleCall ==
    [pc |-> "idle", fn |-> "none", mnemonic |-> "", index |-> 0,
     network |-> "Mainnet", generated |-> <<>>, out |-> NoOutcome]

InFlight(c) == calls[c].pc = "awaitSeed"

BeginCall(c, fn, args, generated) ==
    /\ fn \in slots[c]
    /\ ~InFlight(c)
    /\ calls' = [calls EXCEPT ![c] =
           [pc |-> "awaitSeed", fn |-> fn, mnemonic |-> args.mnemonic,
            index |-> args.index, network |-> args.network,
            generated |-> generated, out |-> NoOutcome]]
    /\ UNCHANGED <<pathArgs, pathOut, vIn, vOut, cb, enc, dec, libFault, slots>>

SeedOf_Shared(c) ==
    LET inflight == {d \in Calls : InFlight(d)}
        last == CHOOSE d \in inflight : \A e \in inflight : e <= d
    IN  MnemonicToSeed(calls[last].mnemonic)

\* const seed = await bip39.mnemonicToSeed(mnemonic): a local of the call
SeedOf(c) == MnemonicToSeed(calls[c].mnemonic)

\* the seed promise settles and the rest of the function runs
Settle(c, fn, outcome) ==
    /\ calls[c].fn = fn
    /\ InFlight(c)
    /\ calls' = [calls EXCEPT
           ![c].pc = IF libFault = "seed" \/ outcome.threw
                     THEN "rejected" ELSE "returned",
           ![c].out = IF libFault = "seed" THEN Throw("mnemonicToSeed rejected")
                      ELSE outcome]
    /\ UNCHANGED <<pathArgs, pathOut, vIn, vOut, cb, enc, dec, libFault, slots>>

WalletFromSeedPhraseCall(c) ==
    \E mnemonic \in Mnemonics, index \in Indexes, network \in Networks :
        BeginCall(c, "walletFromSeedPhrase",
                  [mnemonic |-> mnemonic, index |-> index, network |-> network], <<>>)

WalletFromSeedPhraseResume(c) ==
    Settle(c, "walletFromSeedPhrase",
           WalletFromSeed(SeedOf(c), calls[c].mnemonic, calls[c].index, calls[c].network))

NewWalletArgs_Testnet(mnemonic) ==
    [mnemonic |-> mnemonic, index |-> 0, network |-> "Testnet"]

\* walletFromSeedPhrase({ mnemonic, index: 0n, network: 'Mainnet' })
NewWalletArgs(mnemonic) ==
    [mnemonic |-> mnemonic, index |-> 0, network |-> "Mainnet"]

\* generateMnemonic() draws a fresh mnemonic, then walletFromSeedPhrase is entered
NewWalletCall(c) ==
    \E mnemonic \in Mnemonics :
        BeginCall(c, "newWallet", NewWalletArgs(mnemonic), <<mnemonic>>)

\* newWallet returns walletFromSeedPhrase's promise
NewWalletResume(c) ==
    Settle(c, "newWallet",
           WalletFromSeed(SeedOf(c), calls[c].mnemonic, calls[c].index, calls[c].network))

GetBtcPrivateKeyCall(c) ==
    \E seedPhrase \in Mnemonics, index \in Indexes, network \in Networks :
        BeginCall(c, "getBtcPrivateKey",
                  [mnemonic |-> seedPhrase, index |-> index, network |-> network], <<>>)

GetBtcPrivateKeyResume(c) ==
    Settle(c, "getBtcPrivateKey",
           getBtcPrivateKey(SeedOf(c), calls[c].index, calls[c].network))

GetBtcTaprootPrivateKeyCall(c) ==
    \E seedPhrase \in Mnemonics, index \in Indexes, network \in Networks :
        BeginCall(c, "getBtcTaprootPrivateKey",
                  [mnemonic |-> seedPhrase, index |-> index, network |-> network], <<>>)

GetBtcTaprootPrivateKeyResume(c) ==
    Settle(c, "getBtcTaprootPrivateKey",
           getBtcTaprootPrivateKey(SeedOf(c), calls[c].index, calls[c].network))

GetStxAddressKeyChainCall(c) ==
    \E mnemonic \in Mnemonics, accountIndex \in Indexes, chainID \in Networks :
        BeginCall(c, "getStxAddressKeyChain",
                  [mnemonic |-> mnemonic, index |-> accountIndex, network |-> chainID], <<>>)

GetStxAddressKeyChainResume(c) ==
    Settle(c, "getStxAddressKeyChain",
           getStxAddressKeyChain(SeedOf(c), calls[c].network, calls[c].index))

CallsIdle ==
    /\ libFault = "none"
    /\ slots = [c \in Calls |-> {}]
    /\ calls = [c \in Calls |-> IdleCall]

(***************************************************************************)
(* Specifications.                                                         *)
(***************************************************************************)
\* wallet assembly: walletFromSeedPhrase / newWallet calls in flight at once
Init ==
    /\ PathIdle /\ ValidateIdle /\ CryptIdle
    /\ libFault \in LibFaults
    /\ slots = [c \in Calls |-> WalletFns]
    /\ calls = [c \in Calls |-> IdleCall]

Next ==
    \E c \in Calls :
        \/ WalletFromSeedPhraseCall(c)
        \/ WalletFromSeedPhraseResume(c)
        \/ NewWalletCall(c)
        \/ NewWalletResume(c)

Spec == Init /\ [][Next]_vars

\* a walletFromSeedPhrase call in slot 1 beside a lookup helper call in slot 2
KeysInit ==
    /\ PathIdle /\ ValidateIdle /\ CryptIdle
    /\ libFault \in LibFaults
    /\ slots = [c \in Calls |-> IF c = 1 THEN {"walletFromSeedPhrase"}
                                ELSE IF c = 2 THEN LookupFns ELSE {}]
    /\ calls = [c \in Calls |-> IdleCall]

KeysNext ==
    \E c \in Calls :
        \/ WalletFromSeedPhraseCall(c)
        \/ WalletFromSeedPhraseResume(c)
        \/ GetBtcPrivateKeyCall(c)
        \/ GetBtcPrivateKeyResume(c)
        \/ GetBtcTaprootPrivateKeyCall(c)
        \/ GetBtcTaprootPrivateKeyResume(c)
        \/ GetStxAddressKeyChainCall(c)
        \/ GetStxAddressKeyChainResume(c)

SpecKeys == KeysInit /\ [][KeysNext]_vars

\* the path builders applied to every (builder, account, index), on both networks
PathSpecInit == PathInit /\ ValidateIdle /\ CryptIdle /\ CallsIdle

SpecPath == PathSpecInit /\ [][PathNext]_vars

\* the validators applied to every library outcome
ValidateSpecInit == PathIdle /\ ValidateInit /\ CryptIdle /\ CallsIdle

SpecValidate == ValidateSpecInit /\ [][ValidateNext]_vars

\* one encryption and one decryption, with every stub callback pair
CryptSpecInit == PathIdle /\ ValidateIdle /\ CryptInit /\ CallsIdle

SpecCrypt == CryptSpecInit /\ [][CryptNext]_vars

(***************************************************************************)
(* Properties.                                                             *)
(***************************************************************************)

\* C1: validateStxAddress and validateBtcAddress never raise: whatever the
\* library does with the address, the validator returns a boolean, and it
\* returns false whenever the library call throws.
ValidatorsNeverRaise ==
    vOut # <<>> =>
        /\ ~vOut[1].raised
        /\ vOut[1].value \in BOOLEAN
        /\ (vIn.lib.threw => vOut[1].value = FALSE)

ValidatorCaughtThrow ==
    /\ vOut # <<>>
    /\ vIn.fn = "validateBtcAddress"
    /\ vIn.lib.threw
    /\ vOut[1] = [raised |-> FALSE, value |-> FALSE]

MainnetVersions == {MainnetSingleSig, MainnetMultiSig}
TestnetVersions == {TestnetSingleSig, TestnetMultiSig}
StxDecoded == vOut # <<>> /\ vIn.fn = "validateStxAddress" /\ ~vIn.lib.threw

\* C2 as stated: for every decodable address the version byte alone decides:
\* a Mainnet version gives true under Mainnet and false under Testnet, a
\* Testnet version the reverse, any other version false under both.
StxVersionAloneDecides ==
    StxDecoded =>
        /\ (vIn.lib.version \in MainnetVersions
                => vOut[1].value = (vIn.network = "Mainnet"))
        /\ (vIn.lib.version \in TestnetVersions
                => vOut[1].value = (vIn.network = "Testnet"))
        /\ (vIn.lib.version \notin MainnetVersions \cup TestnetVersions
                => vOut[1].value = FALSE)

\* C2 amended: the version byte decides for a decodable address whose decoded
\* hash is not empty; a decodable address with an empty hash, or with a
\* version of neither network, is rejected under both networks.
StxVersionDecidesGivenHash ==
    StxDecoded =>
        /\ (vIn.lib.hash # "" /\ vIn.lib.version \in MainnetVersions
                => vOut[1].value = (vIn.network = "Mainnet"))
        /\ (vIn.lib.hash # "" /\ vIn.lib.version \in TestnetVersions
                => vOut[1].value = (vIn.network = "Testnet"))
        /\ (vIn.lib.version \notin MainnetVersions \cup TestnetVersions
                => vOut[1].value = FALSE)
        /\ (vIn.lib.hash = "" => vOut[1].value = FALSE)

StxMainnetAccepted ==
    /\ StxDecoded
    /\ vIn.lib.version = MainnetSingleSig
    /\ vIn.lib.hash # ""
    /\ vIn.network = "Mainnet"
    /\ vOut[1].value = TRUE

\* C3: for each path builder, every account and every index, the Mainnet and
\* the Testnet path have the same six segments except the third, the coin
\* type, which is 0' on Mainnet and 1' on Testnet; the change segment is 0;
\* the wrapped-segwit Mainnet path of index 0 without account ends in
\* 0'/0'/0/0.
CoinTypeOnlyDiffers ==
    (pathOut["Mainnet"] # <<>> /\ pathOut["Testnet"] # <<>>) =>
        LET m == Split(pathOut["Mainnet"][1], "/")
            t == Split(pathOut["Testnet"][1], "/")
        IN  /\ Len(m) = 6
            /\ Len(t) = 6
            /\ \A k \in {1, 2, 4, 5, 6} : m[k] = t[k]
            /\ m[3] = <<"0", "'">>
            /\ t[3] = <<"1", "'">>
            /\ m[5] = <<"0">>
            /\ (pathArgs.fn = "getBitcoinDerivationPath" /\ pathArgs.index = 0
                    /\ pathArgs.account = <<>>
                  => EndsWith(pathOut["Mainnet"][1],
                              <<"0", "'", "/", "0", "'", "/", "0", "/", "0">>))

BothPathsBuilt ==
    /\ pathArgs.fn = "getBitcoinDerivationPath"
    /\ pathArgs.index = 0
    /\ pathArgs.account = <<>>
    /\ pathOut["Mainnet"] =
           <<(<<"m", "/", "4", "9", "'", "/", "0", "'", "/", "0", "'", "/", "0", "/", "0">>)>>
    /\ pathOut["Testnet"] # <<>>

SameInputs(c, d) ==
    /\ calls[c].mnemonic = calls[d].mnemonic
    /\ calls[c].index = calls[d].index
    /\ calls[c].network = calls[d].network

Returned(c, fn) == calls[c].fn = fn /\ calls[c].pc = "returned"

\* C4: for the same (seed phrase, index, network), getBtcPrivateKey returns
\* the private key of the child node from which walletFromSeedPhrase computes
\* btcAddress and btcPublicKey, and getBtcTaprootPrivateKey that of the child
\* node from which it computes ordinalsAddress and ordinalsPublicKey.
LookupKeysMatchWallet ==
    \A w \in Calls, k \in Calls :
        (Returned(w, "walletFromSeedPhrase") /\ SameInputs(w, k)) =>
            LET wallet == calls[w].out.value[1]
                key == calls[k].out.value[1]
            IN  /\ Returned(k, "getBtcPrivateKey") =>
                    /\ key = ToHex(PrivateKey(calls[w].out.btcChild[1]))
                    /\ calls[k].out.btcChild = calls[w].out.btcChild
                    /\ wallet.btcPublicKey = ToHex(PublicKey(key.of))
                    /\ wallet.btcAddress.pubkey = PublicKey(key.of)
                /\ Returned(k, "getBtcTaprootPrivateKey") =>
                    /\ key = ToHex(PrivateKey(calls[w].out.taprootChild[1]))
                    /\ calls[k].out.taprootChild = calls[w].out.taprootChild
                    /\ wallet.ordinalsAddress.key = key.of
                    /\ wallet.ordinalsPublicKey.of.of = key.of

WalletAndBtcKeyReturned ==
    \E w \in Calls, k \in Calls :
        /\ Returned(w, "walletFromSeedPhrase")
        /\ Returned(k, "getBtcPrivateKey")
        /\ SameInputs(w, k)
        /\ calls[w].network = "Testnet"
        /\ calls[w].index = 1

CipherKeys == {PasswordHash(p, n) : p \in Passwords, n \in {0, 1}}

\* the decipher undoes the cipher when handed the cipher's buffer
BufferReversible(kind) ==
    \A seed \in Seeds, key \in CipherKeys :
        StubDecrypt(kind, [type |-> "Buffer", v |-> StubEncrypt(seed, key)], key) = seed

\* the decipher undoes the cipher when handed the hex string of the cipher's buffer
HexReversible(kind) ==
    \A seed \in Seeds, key \in CipherKeys :
        StubDecrypt(kind, [type |-> "string", v |-> HexEncode(StubEncrypt(seed, key))],
                    key) = seed

RoundTrip ==
    /\ enc.pc = "done"
    /\ dec.pc = "done"
    /\ dec.input = enc.result
    /\ dec.password = enc.password
    /\ cb.hasher = "deterministic"

\* C5 as stated: with a deterministic hash generator and a cipher pair that is
\* a reversible transform keyed by the hash, decrypting the output of the
\* encryption with the same password gives back the seed.
RoundTripOfReversiblePair ==
    (RoundTrip /\ BufferReversible(cb.cipher)) => dec.result = enc.input

\* C5 amended: the round trip gives back the seed when the decryption handler
\* inverts the encryption handler on the hex string of the encrypted buffer,
\* which is what decryptMnemonicWithCallback hands it.
RoundTripOfHexReversiblePair ==
    (RoundTrip /\ HexReversible(cb.cipher)) => dec.result = enc.input

RoundTripDone ==
    /\ RoundTrip
    /\ HexReversible(cb.cipher)
    /\ Len(enc.input) = 2
    /\ dec.result = enc.input

CompleteTraces ==
    {<<"hashCall", "hashThrow">>,
     <<"hashCall", "hashReturn", "cipherCall", "cipherThrow">>,
     <<"hashCall", "hashReturn", "cipherCall", "cipherReturn">>}

IsPrefix(s, t) == Len(s) <= Len(t) /\ SubSeq(t, 1, Len(s)) = s

Occurs(ev, trace) == \E k \in 1..Len(trace) : trace[k] = ev

ProtocolOf(op) ==
    /\ \E t \in CompleteTraces : IsPrefix(op.trace, t)
    /\ (op.pc \in {"done", "rejected"} => op.trace \in CompleteTraces)
    /\ (Occurs("cipherCall", op.trace) => op.cipherKey = op.hash /\ op.hash # <<>>)
    /\ (op.pc = "rejected" =>
            /\ op.trace[Len(op.trace)] \in {"hashThrow", "cipherThrow"}
            /\ op.err = op.raisedErr
            /\ op.err \in Errors)
    /\ (op.pc = "done" =>
            /\ op.trace[Len(op.trace)] = "cipherReturn"
            /\ op.err = "")

\* C6: in both operations the hash callback is called exactly once and has
\* returned before the cipher callback is called; the cipher callback is
\* called at most once, with the returned hash as its key; a raising callback
\* is not called again, the operation rejects with the error it raised, and
\* after a raising hash callback the cipher callback is not called.
CallbackProtocol == ProtocolOf(enc) /\ ProtocolOf(dec)

CipherRaised ==
    /\ dec.pc = "rejected"
    /\ dec.trace = <<"hashCall", "hashReturn", "cipherCall", "cipherThrow">>
    /\ dec.err = "E2"
    /\ enc.pc = "rejected"
    /\ enc.trace = <<"hashCall", "hashThrow">>

\* C7: walletFromSeedPhrase is all-or-nothing: when the seed computation or a
\* sub-derivation fails (a child node without private key, a path the library
\* refuses) the call rejects with an error and returns no record; a returned
\* record has all eight fields, computed from child nodes with private keys.
AllOrNothing ==
    \A c \in Calls :
        calls[c].fn \in WalletFns =>
            LET o == calls[c].out
            IN  /\ calls[c].pc = "returned" =>
                    /\ ~o.threw
                    /\ o.err = ""
                    /\ Len(o.value) = 1
                    /\ DOMAIN o.value[1] = WalletFields
                    /\ libFault = "none"
                    /\ calls[c].index >= 0
                    /\ o.stxChild[1].hasPrivateKey
                    /\ o.btcChild[1].hasPrivateKey
                    /\ o.taprootChild[1].hasPrivateKey
                /\ calls[c].pc = "rejected" =>
                    /\ o.threw
                    /\ o.err # ""
                    /\ o.value = <<>>
                /\ calls[c].pc = "awaitSeed" => o.value = <<>>

LateDerivationFailed ==
    \E c \in Calls :
        /\ calls[c].fn = "walletFromSeedPhrase"
        /\ libFault = "taproot"
        /\ calls[c].index = 0
        /\ calls[c].pc = "rejected"
        /\ calls[c].out.value = <<>>

Settled(c) == calls[c].pc \in {"returned", "rejected"}

DeterministicCalls ==
    \A c \in Calls, d \in Calls :
        (calls[c].fn \in WalletFns /\ calls[d].fn \in WalletFns
           /\ Settled(c) /\ Settled(d) /\ SameInputs(c, d)) =>
            /\ calls[c].pc = calls[d].pc
            /\ calls[c].out = calls[d].out

OneCallPerStep ==
    /\ \E c \in Calls : \A d \in Calls \ {c} : calls'[d] = calls[d]
    /\ libFault' = libFault

\* C8: calls of walletFromSeedPhrase with the same (mnemonic, index, network)
\* settle alike and return the same record, however the calls in flight
\* interleave at the seed await; a step of one call changes no other call.
CallsAreIndependent == []DeterministicCalls /\ [][OneCallPerStep]_vars

InterleavedCallsAgree ==
    /\ Returned(1, "walletFromSeedPhrase")
    /\ Returned(2, "walletFromSeedPhrase")
    /\ SameInputs(1, 2)
    /\ calls[1].index = 1
    /\ calls[1].out.value = calls[2].out.value

\* C9: newWallet builds its wallet at index 0 on Mainnet: its record is the
\* one walletFromSeedPhrase gives for the generated mnemonic, index 0 and
\* Mainnet, and its seedPhrase is that mnemonic.
NewWalletIsIndex0Mainnet ==
    \A c \in Calls :
        Returned(c, "newWallet") =>
            LET mnemonic == calls[c].generated[1]
            IN  /\ calls[c].out.value[1].seedPhrase = mnemonic
                /\ calls[c].out.value =
                       WalletFromSeed(MnemonicToSeed(mnemonic), mnemonic, 0, "Mainnet").value
                /\ \A d \in Calls :
                       (Returned(d, "walletFromSeedPhrase")
                          /\ calls[d].mnemonic = mnemonic
                          /\ calls[d].index = 0 /\ calls[d].network = "Mainnet")
                         => calls[d].out.value = calls[c].out.value

NewWalletBesideWallet ==
    \E c \in Calls, d \in Calls :
        /\ Returned(c, "newWallet")
        /\ Returned(d, "walletFromSeedPhrase")
        /\ calls[d].mnemonic = calls[c].generated[1]
        /\ calls[d].index = 0
        /\ calls[d].network = "Mainnet"

\* C10: the Stacks derivation does not depend on the chain: for the same
\* mnemonic and index, walletFromSeedPhrase and getStxAddressKeyChain derive
\* the same child node and the same private key whatever their chains, and
\* the two addresses differ in the transaction version only.
StxKeyIgnoresChain ==
    \A w \in Calls, k \in Calls :
        (Returned(w, "walletFromSeedPhrase") /\ Returned(k, "getStxAddressKeyChain")
           /\ calls[w].mnemonic = calls[k].mnemonic /\ calls[w].index = calls[k].index) =>
            LET wallet == calls[w].out.value[1]
                chain == calls[k].out.value[1]
            IN  /\ getDerivationPath("Mainnet", calls[k].index)
                       = getDerivationPath("Testnet", calls[k].index)
                /\ calls[w].out.stxChild = <<chain.childKey>>
                /\ calls[w].out.stxPrivateKey = <<chain.privateKey>>
                /\ wallet.stxPublicKey = ToHex(PublicKey(chain.privateKey))
                /\ wallet.stxAddress =
                       [chain.address EXCEPT
                           !.version = TransactionVersion(calls[w].network)]
                /\ (calls[w].network # calls[k].network
                      => wallet.stxAddress.version # chain.address.version)

BothChainsDerived ==
    \E w \in Calls, k \in Calls :
        /\ Returned(w, "walletFromSeedPhrase")
        /\ Returned(k, "getStxAddressKeyChain")
        /\ calls[w].mnemonic = calls[k].mnemonic
        /\ calls[w].index = calls[k].index
        /\ calls[w].network = "Mainnet"
        /\ calls[k].network = "Testnet"

====
